---- MODULE Spec2Model ----
(***************************************************************************)
(* strace-perfetto: the conversion of an strace log into a trace-event     *)
(* list (main.go, events.go), the k-way merge of the event sources         *)
(* (events.go) and the resource sampler that runs beside strace            *)
(* (resources.go).                                                         *)
(*                                                                         *)
(* Text is a sequence of symbols.  The numeric fields of a log line are    *)
(* sequences of characters, so that convertTS, convertID and Atoi compute  *)
(* on them.  The argument text of a call is a sequence of lexical tokens,  *)
(* so that strings.Contains and the regular expressions applied to it are  *)
(* decided by its tokens.  A syscall name is a string.                     *)
(***************************************************************************)
EXTENDS Integers, Sequences, FiniteSets, TLC

VARIABLES
    pc,                     \* main's position
    log,                    \* the lines of the log file the scanner has returned
    syscallEvents,          \* main.go:75
    preserved,              \* main.go:76, key -> *Event
    liveThreads,            \* main.go:84, the tids mapped to true
    resourceMonitorEvents,  \* main.go:79
    processNames,           \* main.go:128
    threadNames,            \* main.go:129
    processThreads,         \* main.go:130
    metadataEvents,         \* main.go:168
    nextFlowId,             \* main.go:169
    mergeArgs,              \* the variadic argument of merge, events.go:157
    events,                 \* main.go:292, the merged list
    saved,                  \* the file TraceEvents.Save writes
    resourceMonitor,        \* main.go:58, "nil" or the monitor's fields
    rpc,                    \* the position of the goroutine running ResourceMonitor.Run
    ctxDone,                \* main.go:62, whether cancel() has been called
    now,                    \* the wall clock, nanoseconds
    cgroup                  \* the cgroup pseudo-files the sampler reads

vars == <<pc, log, syscallEvents, preserved, liveThreads, resourceMonitorEvents,
          processNames, threadNames, processThreads, metadataEvents, nextFlowId,
          mergeArgs, events, saved, resourceMonitor, rpc, ctxDone, now, cgroup>>

pipelineVars == <<log, syscallEvents, preserved, liveThreads, processNames,
                  threadNames, processThreads, metadataEvents, nextFlowId>>

samplerVars == <<resourceMonitor, rpc, ctxDone, now, cgroup>>

(***************************************************************************)
(* Bounds of the model.                                                    *)
(***************************************************************************)
\* int is 64 bits wide; strconv.Atoi reports a range error beyond it.  The
\* model keeps the range check with a narrower int.
MaxInt == 99
\* The number of lists handed to merge and the length of each, in SpecMerge.
MaxLists == 3
MaxListLen == 2
\* The number of lines of the log file.
MaxLines == 3
\* The number of samples the sampler takes.
MaxSamples == 2
\* uint64 is 64 bits wide; the model keeps its range check and its wrap
\* with a narrower uint64.
MaxUint64 == 65535

(***************************************************************************)
(* Text helpers: the strings and strconv functions the program calls.      *)
(***************************************************************************)
Digits == {"0", "1", "2", "3", "4", "5", "6", "7", "8", "9"}

DigitVal(c) ==
    CASE c = "0" -> 0 [] c = "1" -> 1 [] c = "2" -> 2 [] c = "3" -> 3
      [] c = "4" -> 4 [] c = "5" -> 5 [] c = "6" -> 6 [] c = "7" -> 7
      [] c = "8" -> 8 [] c = "9" -> 9

Front(s) == SubSeq(s, 1, Len(s) - 1)

Last(s) == s[Len(s)]

RECURSIVE DecimalValue(_)
DecimalValue(s) ==
    IF s = <<>> THEN 0 ELSE 10 * DecimalValue(Front(s)) + DigitVal(Last(s))

\* strconv.Atoi: an optional sign, then one or more decimal digits, in range.
Atoi(s) ==
    LET signed == Len(s) > 0 /\ s[1] \in {"+", "-"}
        body   == IF signed THEN Tail(s) ELSE s
        syntax == Len(body) > 0 /\ \A i \in 1..Len(body) : body[i] \in Digits
        v      == IF syntax THEN DecimalValue(body) ELSE 0
    IN  IF syntax /\ v <= MaxInt
          THEN [err |-> FALSE, v |-> IF signed /\ s[1] = "-" THEN 0 - v ELSE v]
          ELSE [err |-> TRUE, v |-> 0]

\* strings.Split(s, sep) for a one-symbol separator.
RECURSIVE Split(_, _)
Split(s, sep) ==
    IF \E i \in 1..Len(s) : s[i] = sep
      THEN LET i == CHOOSE j \in 1..Len(s) :
                        s[j] = sep /\ \A k \in 1..(j - 1) : s[k] # sep
           IN  <<SubSeq(s, 1, i - 1)>> \o Split(SubSeq(s, i + 1, Len(s)), sep)
      ELSE <<s>>

\* strings.Contains(s, tok), tok one token of the argument text.
Contains(s, tok) == \E i \in 1..Len(s) : s[i] = tok

(***************************************************************************)
(* events.go: Event, Args and the conversions.                             *)
(***************************************************************************)
\* Args.Data and Args.DetachedDur are never written by the program.
\* Event.Scope is the field main.go:206 sets; events.go does not declare it.
ZeroArgs ==
    [Name |-> <<>>, CPU |-> [n |-> 0, d |-> 1], Memory |-> 0,
     First |-> <<>>, Second |-> <<>>, ReturnValue |-> <<>>]

\* The empty line, the fullTrace of an event no line was parsed into.
NoLine ==
    [shape |-> {}, g1 |-> <<>>, g2 |-> <<>>, g3 |-> "", g4 |-> <<>>, g5 |-> <<>>,
     g6 |-> <<>>]

ZeroEvent ==
    [fullTrace |-> NoLine, Name |-> "", Cat |-> "", Ph |-> "", Pid |-> 0, Tid |-> 0,
     Ts |-> 0, Dur |-> 0, Id |-> 0, Scope |-> "", Args |-> ZeroArgs]

\* convertID: log.Fatal when Atoi fails.
convertID(id) ==
    LET r == Atoi(id) IN [fatal |-> r.err, v |-> r.v]

\* convertTS: the integer and the fractional digits concatenated; 0 when
\* the text holds no "."; log.Fatal when Atoi of the concatenation fails.
convertTS(ts) ==
    LET s == Split(ts, ".")
    IN  IF Len(s) = 1
          THEN [fatal |-> FALSE, v |-> 0]
          ELSE LET r == Atoi(s[1] \o s[2]) IN [fatal |-> r.err, v |-> r.v]

\* getType: the first regular expression, in this order, that matches the
\* line.  line.shape is the set of regular expressions that match it.
getType(line) ==
    IF "failed" \in line.shape THEN "failed"
    ELSE IF "successful" \in line.shape THEN "successful"
    ELSE IF "unfinished" \in line.shape THEN "unfinished"
    ELSE IF "detached" \in line.shape THEN "detached"
    ELSE IF "exited" \in line.shape THEN "lifetime"
    ELSE "other"

\* getReGroups: the groups 1.. of the category's regular expression.
getReGroups(line, cat) ==
    CASE cat \in {"successful", "failed", "detached"} ->
            <<line.g1, line.g2, line.g3, line.g4, line.g5, line.g6>>
      [] cat \in {"unfinished", "lifetime"} ->
            <<line.g1, line.g2, line.g3, line.g4>>
      [] OTHER -> <<>>

\* addFields, after getType.  fatal: one of the conversions called log.Fatal.
addFields(line, cat) ==
    LET groups == getReGroups(line, cat)
        base   == [ZeroEvent EXCEPT !.fullTrace = line, !.Cat = cat]
    IN  IF Len(groups) = 0
          THEN [fatal |-> FALSE, e |-> base]
          ELSE
            LET ts   == convertTS(groups[2])
                id   == convertID(groups[1])
                dur  == IF cat \in {"successful", "failed", "detached"}
                          THEN convertTS(groups[6])
                          ELSE [fatal |-> FALSE, v |-> 0]
                e0   == [base EXCEPT !.Name = groups[3], !.Ts = ts.v, !.Pid = id.v,
                                     !.Tid = id.v, !.Args.First = groups[4]]
                e1   == CASE cat \in {"successful", "failed"} ->
                                [e0 EXCEPT !.Ph = "X", !.Dur = dur.v,
                                           !.Args.First = groups[4],
                                           !.Args.ReturnValue = groups[5]]
                          [] cat = "detached" ->
                                [e0 EXCEPT !.Ph = "X", !.Dur = dur.v,
                                           !.Args.Second = groups[4],
                                           !.Args.ReturnValue = groups[5]]
                          [] cat = "unfinished" ->
                                [e0 EXCEPT !.Args.First = groups[4], !.Ph = "B"]
                          [] cat = "lifetime" ->
                                [e0 EXCEPT !.Name = "lifetime", !.Ph = "E"]
            IN  [fatal |-> ts.fatal \/ id.fatal \/ dur.fatal, e |-> e1]

NewEvent(content) == addFields(content, getType(content))

(***************************************************************************)
(* events.go: merge.                                                       *)
(***************************************************************************)
RemoveAt(s, i) == SubSeq(s, 1, i - 1) \o SubSeq(s, i + 1, Len(s))

\* The first loop: each empty list is removed.
MergeSkipEmpty(lists) == SelectSeq(lists, LAMBDA l : Len(l) > 0)

\* The inner loop from list i on, eventIndex being the list chosen so far.
RECURSIVE MergeSelectFromStrict(_, _, _)
MergeSelectFromStrict(lists, i, eventIndex) ==
    IF i > Len(lists) THEN eventIndex
    ELSE IF lists[eventIndex][1].Ts < lists[i][1].Ts
           THEN MergeSelectFromStrict(lists, i + 1, eventIndex)
           ELSE MergeSelectFromStrict(lists, i + 1, i)

RECURSIVE MergeSelectFrom(_, _, _)
MergeSelectFrom(lists, i, eventIndex) ==
    IF i > Len(lists) THEN eventIndex
    ELSE IF lists[eventIndex][1].Ts <= lists[i][1].Ts
           THEN MergeSelectFrom(lists, i + 1, eventIndex)
           ELSE MergeSelectFrom(lists, i + 1, i)

\* The lists after the head of list eventIndex has been taken.
MergeAdvanceDropList(lists, eventIndex) == RemoveAt(lists, eventIndex)

MergeAdvance(lists, eventIndex) ==
    IF Len(lists[eventIndex]) = 1
      THEN RemoveAt(lists, eventIndex)
      ELSE [lists EXCEPT ![eventIndex] = Tail(@)]

RECURSIVE MergeLoop(_, _)
MergeLoop(lists, merged) ==
    IF Len(lists) = 0 THEN merged
    ELSE LET eventIndex == MergeSelectFrom(lists, 2, 1)
         IN  MergeLoop(MergeAdvance(lists, eventIndex),
                       Append(merged, lists[eventIndex][1]))

merge(lists) ==
    IF Len(lists) = 0 THEN <<>> ELSE MergeLoop(MergeSkipEmpty(lists), <<>>)

(***************************************************************************)
(* events.go: TraceEvents.Save.  A field tagged omitempty is left out of   *)
(* the JSON object when it holds its zero value.                           *)
(***************************************************************************)
OmitEmpty(obj, zero) ==
    [k \in {f \in DOMAIN obj : f \notin DOMAIN zero \/ obj[f] # zero[f]} |-> obj[k]]

MarshalArgs(a) ==
    OmitEmpty([name |-> a.Name, cpu |-> a.CPU, memory |-> a.Memory, first |-> a.First,
               second |-> a.Second, returnValue |-> a.ReturnValue],
              [name |-> <<>>, cpu |-> [n |-> 0, d |-> 1], memory |-> 0, first |-> <<>>,
               second |-> <<>>, returnValue |-> <<>>])

MarshalEvent(e) ==
    OmitEmpty([name |-> e.Name, cat |-> e.Cat, ph |-> e.Ph, pid |-> e.Pid, tid |-> e.Tid,
               ts |-> e.Ts, dur |-> e.Dur, id |-> e.Id, args |-> MarshalArgs(e.Args)],
              [dur |-> 0, id |-> 0])

Marshal(list) == [i \in 1..Len(list) |-> MarshalEvent(list[i])]

(***************************************************************************)
(* Go maps: a function on the keys present.                                *)
(***************************************************************************)
EmptyMap == [k \in {} |-> 0]

MapPut(m, k, v) == [x \in (DOMAIN m) \cup {k} |-> IF x = k THEN v ELSE m[x]]

MapDelete(m, k) == [x \in (DOMAIN m) \ {k} |-> m[x]]

\* m[k] in Go: the zero value when the key is absent.
MapGet(m, k, zero) == IF k \in DOMAIN m THEN m[k] ELSE zero

\* The orders in which a range loop may visit the keys of a map.
KeyOrders(m) ==
    {o \in [1..Cardinality(DOMAIN m) -> DOMAIN m] :
        \A i, j \in DOMAIN o : i # j => o[i] # o[j]}

(***************************************************************************)
(* main.go: the scanner loop, lines 85-121.                                *)
(***************************************************************************)
\* strconv.Itoa(e.Pid) + e.Name
PreservedKey(e) == ToString(e.Pid) \o e.Name

LifetimeBegin(e) ==
    [ZeroEvent EXCEPT !.Name = "lifetime", !.Cat = "lifetime", !.Ph = "B",
                      !.Ts = e.Ts, !.Pid = e.Pid, !.Tid = e.Tid]

\* Line 108: p := preserved[k], a nil pointer when the key is absent.
PreservedLookupZero(pres, k) ==
    [nil |-> FALSE, e |-> MapGet(pres, k, ZeroEvent)]

PreservedLookup(pres, k) ==
    IF k \in DOMAIN pres THEN [nil |-> FALSE, e |-> pres[k]]
                          ELSE [nil |-> TRUE, e |-> ZeroEvent]

\* The detached event completed from the preserved event p, lines 109-111.
PairDetachedOwnTiming(e, p) == [e EXCEPT !.Args.First = p.Args.First]

PairDetached(e, p) ==
    [e EXCEPT !.Dur = e.Ts - p.Ts, !.Ts = p.Ts, !.Args.First = p.Args.First]

\* A lifetime Begin event for every line.
WithLifetimeEveryLine(list, live, e) == Append(list, LifetimeBegin(e))

\* Lines 90-101: the events list after the thread's first line.
WithLifetime(list, live, e) ==
    IF e.Tid \in live THEN list ELSE Append(list, LifetimeBegin(e))

(***************************************************************************)
(* main.go: the process tree, lines 128-166.                               *)
(***************************************************************************)
\* strings.HasPrefix(name, "clone"), over the syscall names of the model.
HasPrefixClone(name) == name \in {"clone", "clone2", "clone3"}

IsCreation(e) == e.Name = "fork" \/ HasPrefixClone(e.Name)

\* Lines 136-139: the event with its pid taken from the tid's entry.
Repid(e, pt) == IF e.Tid \in DOMAIN pt THEN [e EXCEPT !.Pid = pt[e.Tid]] ELSE e

\* Lines 140-149: the map after the (re-pidded) event e.
LearnChild(e, pt) ==
    IF IsCreation(e)
      THEN LET childTid == Atoi(e.Args.ReturnValue)
           IN  IF childTid.err THEN pt
               ELSE IF Contains(e.Args.First, "CLONE_THREAD")
                      THEN MapPut(pt, childTid.v, e.Pid)
                      ELSE MapPut(pt, childTid.v, childTid.v)
      ELSE pt

\* One loop over syscallEvents from index i on.
RECURSIVE AncestryLoop(_, _, _)
AncestryLoop(list, i, pt) ==
    IF i > Len(list) THEN [list |-> list, pt |-> pt]
    ELSE LET e == Repid(list[i], pt)
         IN  AncestryLoop([list EXCEPT ![i] = e], i + 1, LearnChild(e, pt))

(***************************************************************************)
(* main.go: names and flows, lines 167-259.                                *)
(***************************************************************************)
Quote == "\""

\* The index of the first token tok of s at or after index i, 0 when none.
IndexFrom(s, i, tok) ==
    IF \E j \in i..Len(s) : s[j] = tok
      THEN CHOOSE j \in i..Len(s) : s[j] = tok /\ \A k \in i..(j - 1) : s[k] # tok
      ELSE 0

\* regexpPrctl.FindStringSubmatch: ^\(PR_SET_NAME, \"([^"]+)\"
\* The sequence of the groups 1.., empty when the text does not match.
MatchPrctl(s) ==
    LET close == IndexFrom(s, 5, Quote)
    IN  IF Len(s) >= 6 /\ s[1] = "(" /\ s[2] = "PR_SET_NAME" /\ s[3] = ", "
           /\ s[4] = Quote /\ close >= 6
          THEN <<SubSeq(s, 5, close - 1)>>
          ELSE <<>>

\* regexpExecve.FindStringSubmatch: ^\(\"([^"]+)\", \[\"([^"]+)\"(\.\.\.)?.*
MatchExecve(s) ==
    LET c1 == IndexFrom(s, 3, Quote)
        c2 == IF c1 = 0 THEN 0 ELSE IndexFrom(s, c1 + 5, Quote)
    IN  IF Len(s) >= 9 /\ s[1] = "(" /\ s[2] = Quote /\ c1 >= 4
           /\ Len(s) >= c1 + 5 /\ s[c1 + 1] = ", " /\ s[c1 + 2] = "["
           /\ s[c1 + 3] = Quote /\ c2 >= c1 + 5
          THEN <<SubSeq(s, 3, c1 - 1), SubSeq(s, c1 + 4, c2 - 1),
                 IF Len(s) > c2 /\ s[c2 + 1] = "..." THEN <<"...">> ELSE <<>> >>
          ELSE <<>>

\* path.Base of a path whose tokens are its elements and the "/" between
\* them: the last element, trailing slashes dropped; "." for the empty
\* path and "/" for a path of slashes only.
RECURSIVE PathBase(_)
PathBase(p) ==
    IF p = <<>> THEN <<".">>
    ELSE IF Last(p) = "/" THEN (IF Len(p) = 1 THEN <<"/">> ELSE PathBase(Front(p)))
    ELSE <<Last(p)>>

\* strings.TrimSpace
RECURSIVE TrimSpace(_)
TrimSpace(s) ==
    IF s = <<>> THEN s
    ELSE IF Head(s) = " " THEN TrimSpace(Tail(s))
    ELSE IF Last(s) = " " THEN TrimSpace(Front(s))
    ELSE s

\* The string a token sequence spells.
RECURSIVE Join(_)
Join(s) == IF s = <<>> THEN "" ELSE Head(s) \o Join(Tail(s))

\* regexpGlobalEvent.FindStringSubmatch (main.go:196).  events.go does not
\* define the expression; the pattern is the one of the specification's
\* example, the label between two "===" marks of the text written.
MatchGlobalEvent(s) ==
    LET open  == IndexFrom(s, 1, "===")
        close == IF open = 0 THEN 0 ELSE IndexFrom(s, open + 1, "===")
    IN  IF open > 0 /\ close > open + 1
          THEN <<SubSeq(s, open + 1, close - 1)>>
          ELSE <<>>

\* Lines 175-182
SetThreadName(e, tn) ==
    IF e.Name = "prctl" /\ Contains(e.Args.First, "PR_SET_NAME")
      THEN LET m == MatchPrctl(e.Args.First)
           IN  MapPut(tn, e.Tid, IF Len(m) = 1 THEN m[1] ELSE e.Args.First)
      ELSE tn

\* Lines 183-191: the name an execve gives
ExecveName(e) ==
    LET m == MatchExecve(e.Args.First)
    IN  IF Len(m) = 3
          THEN (IF m[3] = <<"...">> THEN PathBase(m[1]) ELSE m[2])
          ELSE e.Args.First

\* Lines 195-211
GlobalEvents(e) ==
    IF e.Name = "write" /\ Len(MatchGlobalEvent(e.Args.First)) = 1
      THEN << [ZeroEvent EXCEPT !.Name = Join(TrimSpace(MatchGlobalEvent(e.Args.First)[1])),
                                !.Cat = "event", !.Ph = "i", !.Pid = e.Pid,
                                !.Tid = e.Tid, !.Scope = "g", !.Ts = e.Ts] >>
      ELSE <<>>

\* Lines 215-226
FlowStart(e, id) ==
    [ZeroEvent EXCEPT !.Name = e.Name, !.Cat = "clone", !.Ph = "s", !.Pid = e.Pid,
                      !.Tid = e.Tid, !.Ts = e.Ts + 1, !.Id = id]

\* The FlowEnd at the timestamp of the call itself.
FlowEndAtCall(e, childTid, id) ==
    [ZeroEvent EXCEPT !.Name = e.Name, !.Cat = "clone", !.Ph = "f",
                      !.Pid = IF Contains(e.Args.First, "CLONE_THREAD") THEN e.Pid
                              ELSE childTid,
                      !.Tid = childTid, !.Ts = e.Ts, !.Id = id]

\* Lines 228-253
FlowEnd(e, childTid, id) ==
    IF Contains(e.Args.First, "CLONE_THREAD")
      THEN [ZeroEvent EXCEPT !.Name = e.Name, !.Cat = "clone", !.Ph = "f",
                             !.Pid = e.Pid, !.Tid = childTid, !.Ts = e.Ts + 1, !.Id = id]
      ELSE [ZeroEvent EXCEPT !.Name = e.Name, !.Cat = "clone", !.Ph = "f",
                             !.Pid = childTid, !.Tid = childTid, !.Ts = e.Ts + 1,
                             !.Id = id]

\* Lines 212-214: whether the event is a creation call with a child id
HasChild(e) == IsCreation(e) /\ ~Atoi(e.Args.ReturnValue).err

\* One iteration of the loop of lines 170-259 on the state st.
SynthStep(st, i) ==
    LET e   == Repid(st.list[i], processThreads)
        tn1 == SetThreadName(e, st.tn)
        pn2 == IF e.Name = "execve" THEN MapPut(st.pn, e.Pid, ExecveName(e)) ELSE st.pn
        tn2 == IF e.Name = "execve" THEN MapPut(tn1, e.Tid, ExecveName(e)) ELSE tn1
        md3 == st.md \o GlobalEvents(e)
        child == Atoi(e.Args.ReturnValue).v
    IN  IF HasChild(e)
          THEN [list |-> [st.list EXCEPT ![i] = e],
                md   |-> md3 \o <<FlowStart(e, st.flow), FlowEnd(e, child, st.flow)>>,
                tn   |-> MapPut(tn2, child, MapGet(tn2, e.Tid, <<>>)),
                pn   |-> IF Contains(e.Args.First, "CLONE_THREAD") THEN pn2
                         ELSE MapPut(pn2, child, MapGet(pn2, e.Pid, <<>>)),
                flow |-> st.flow + 1]
          ELSE [list |-> [st.list EXCEPT ![i] = e], md |-> md3, tn |-> tn2, pn |-> pn2,
                flow |-> st.flow]

RECURSIVE SynthLoop(_, _)
SynthLoop(st, i) == IF i > Len(st.list) THEN st ELSE SynthLoop(SynthStep(st, i), i + 1)

(***************************************************************************)
(* main.go: the name metadata, lines 260-289.                              *)
(***************************************************************************)
ProcessNameEvent(pid, name) ==
    [ZeroEvent EXCEPT !.Name = "process_name", !.Ph = "M", !.Pid = pid, !.Tid = pid,
                      !.Cat = "__metadata", !.Args.Name = name]

ThreadNameEvent(tid, name, pt) ==
    [ZeroEvent EXCEPT !.Name = "thread_name", !.Ph = "M", !.Tid = tid,
                      !.Pid = MapGet(pt, tid, 0), !.Cat = "__metadata",
                      !.Args.Name = name]

(***************************************************************************)
(* resources.go: the resource monitor.  Times are nanoseconds (time.Time); *)
(* a float64 is the fraction n/d, d = 0 standing for +Inf, -Inf and NaN.   *)
(***************************************************************************)
\* strings.Cut(s, sep) for a one-symbol separator.
Cut(s, sep) ==
    LET i == IndexFrom(s, 1, sep)
    IN  IF i = 0 THEN [before |-> s, after |-> <<>>, ok |-> FALSE]
        ELSE [before |-> SubSeq(s, 1, i - 1), after |-> SubSeq(s, i + 1, Len(s)),
              ok |-> TRUE]

\* parseUint64, lines 181-190: "max", or strconv.ParseUint in base 10.
parseUint64(s) ==
    IF s = <<"max">> THEN [err |-> FALSE, v |-> MaxUint64]
    ELSE IF Len(s) > 0 /\ (\A i \in 1..Len(s) : s[i] \in Digits)
            /\ DecimalValue(s) <= MaxUint64
      THEN [err |-> FALSE, v |-> DecimalValue(s)]
      ELSE [err |-> TRUE, v |-> 0]

\* A pseudo-file: whether os.ReadFile fails on it, and its lines once
\* trimmed and split.
Unreadable == [err |-> TRUE, lines |-> <<>>]

FileOf(lines) == [err |-> FALSE, lines |-> lines]

\* readFlatKeyed, lines 197-213, for the one key of kv, from line i on; v is
\* the value the key's variable holds so far.
RECURSIVE readFlatKeyedLines(_, _, _, _)
readFlatKeyedLines(lines, i, key, v) ==
    IF i > Len(lines) THEN [err |-> FALSE, v |-> v]
    ELSE LET c == Cut(lines[i], " ")
         IN  IF ~c.ok \/ c.before # <<key>>
               THEN readFlatKeyedLines(lines, i + 1, key, v)
               ELSE LET p == parseUint64(c.after)
                    IN  IF p.err THEN [err |-> TRUE, v |-> 0]
                        ELSE readFlatKeyedLines(lines, i + 1, key, p.v)

\* readFlatKeyed, lines 192-214; the key's variable is declared just before
\* the call and holds 0.
readFlatKeyed(file, key) ==
    IF file.err THEN [err |-> TRUE, v |-> 0]
    ELSE readFlatKeyedLines(file.lines, 1, key, 0)

NilMonitor ==
    [nil |-> TRUE, vCPUs |-> [n |-> 0, d |-> 1], lastTimestamp |-> 0,
     lastCPUUsageUsec |-> 0, samples |-> <<>>]

\* NewResourceMonitor, lines 71-87, once every file has been read
NewMonitor(quota, timeslice, usage, t) ==
    [nil |-> FALSE, vCPUs |-> [n |-> quota, d |-> timeslice], lastTimestamp |-> t,
     lastCPUUsageUsec |-> usage, samples |-> <<>>]

\* NewResourceMonitor, lines 55-87: nil when cpu.max or cpu.stat cannot be
\* read or parsed.
NewResourceMonitor(cg, t) ==
    LET content   == IF cg.cpuMax.lines = <<>> THEN <<>> ELSE cg.cpuMax.lines[1]
        c         == Cut(content, " ")
        quota     == parseUint64(c.before)
        timeslice == parseUint64(c.after)
        usage     == readFlatKeyed(cg.cpuStat, "usage_usec")
    IN  IF cg.cpuMax.err \/ ~c.ok \/ quota.err \/ timeslice.err \/ usage.err
          THEN NilMonitor
          ELSE NewMonitor(quota.v, timeslice.v, usage.v, t)

\* time.Duration.Microseconds
Microseconds(d) == d \div 1000

\* The usage since the cgroup was made over the time since the last sample.
CPUUsageCumulative(r, cpuUsageUsec, timestamp) ==
    LET timeDelta == Microseconds(timestamp - r.lastTimestamp)
    IN  [n |-> 100 * cpuUsageUsec * r.vCPUs.d, d |-> r.vCPUs.n * timeDelta]

\* Lines 117-120; the difference of the two counters is a uint64.
CPUUsage(r, cpuUsageUsec, timestamp) ==
    LET timeDelta == Microseconds(timestamp - r.lastTimestamp)
        usage     == (cpuUsageUsec - r.lastCPUUsageUsec) % (MaxUint64 + 1)
    IN  [n |-> 100 * usage * r.vCPUs.d, d |-> r.vCPUs.n * timeDelta]

\* Lines 117-128: the monitor after one successful iteration
TakeSample(r, cpuUsageUsec, memoryAnon, timestamp) ==
    [r EXCEPT !.samples = Append(@, [ts |-> timestamp,
                                     cpu |-> CPUUsage(r, cpuUsageUsec, timestamp),
                                     memory |-> memoryAnon]),
              !.lastCPUUsageUsec = cpuUsageUsec,
              !.lastTimestamp = timestamp]

SystemResources == <<"System resources">>

\* ResourceMonitor.Events, lines 132-167
Events(r) ==
    << [ZeroEvent EXCEPT !.Name = "process_name", !.Ph = "M", !.Cat = "__metadata",
                         !.Args.Name = SystemResources],
       [ZeroEvent EXCEPT !.Name = "thread_name", !.Ph = "M", !.Cat = "__metadata",
                         !.Args.Name = SystemResources] >>
    \o [i \in 1..Len(r.samples) |->
            [ZeroEvent EXCEPT !.Ph = "C", !.Ts = r.samples[i].ts \div 1000,
                              !.Args.CPU = r.samples[i].cpu,
                              !.Args.Memory = r.samples[i].memory]]

(***************************************************************************)
(* The actions of main, main.go:58-300.                                    *)
(***************************************************************************)
\* Lines 58-61: nil when the cgroup path cannot be found (resources.go:35-54),
\* else what NewResourceMonitor makes of cpu.max and cpu.stat.
MainNewResourceMonitor ==
    /\ pc = "new"
    /\ \/ resourceMonitor' = NilMonitor
       \/ resourceMonitor' = NewResourceMonitor(cgroup, now)
    /\ pc' = "go"
    /\ UNCHANGED <<pipelineVars, resourceMonitorEvents, mergeArgs, events, saved,
                   rpc, ctxDone, now, cgroup>>

\* Lines 62-70: go resourceMonitor.Run(ctx)
MainGo ==
    /\ pc = "go"
    /\ rpc' = IF resourceMonitor.nil THEN rpc ELSE "select"
    /\ pc' = "strace"
    /\ UNCHANGED <<pipelineVars, resourceMonitorEvents, mergeArgs, events, saved,
                   resourceMonitor, ctxDone, now, cgroup>>

\* Line 71: strace.Run() returns, at its end or at its timeout.
MainStraceRun ==
    /\ pc = "strace"
    /\ pc' = "cancel"
    /\ UNCHANGED <<pipelineVars, resourceMonitorEvents, mergeArgs, events, saved,
                   samplerVars>>

\* Line 72: cancel()
MainCancel ==
    /\ pc = "cancel"
    /\ ctxDone' = TRUE
    /\ pc' = "events"
    /\ UNCHANGED <<pipelineVars, resourceMonitorEvents, mergeArgs, events, saved,
                   resourceMonitor, rpc, now, cgroup>>

\* Lines 79-82
MainEvents ==
    /\ pc = "events"
    /\ resourceMonitorEvents' =
          IF resourceMonitor.nil THEN <<>> ELSE Events(resourceMonitor)
    /\ pc' = "scan"
    /\ UNCHANGED <<pipelineVars, mergeArgs, events, saved, samplerVars>>

\* Lines 85-121: one iteration of the scanner loop, on a line of Lines.
ScanLine(Lines) ==
    /\ pc = "scan"
    /\ Len(log) < MaxLines
    /\ \E content \in Lines :
         LET r     == NewEvent(content)
             e     == r.e
             k     == PreservedKey(e)
             p     == PreservedLookup(preserved, k)
             list1 == WithLifetime(syscallEvents, liveThreads, e)
         IN  /\ log' = Append(log, content)
             /\ IF r.fatal
                  THEN /\ pc' = "fatal"
                       /\ UNCHANGED <<syscallEvents, preserved, liveThreads>>
                ELSE IF e.Cat = "other"
                  THEN UNCHANGED <<pc, syscallEvents, preserved, liveThreads>>
                ELSE
                  /\ liveThreads' = liveThreads \cup {e.Tid}
                  /\ CASE e.Cat = "unfinished" ->
                            /\ preserved' = MapPut(preserved, k, e)
                            /\ syscallEvents' = list1
                            /\ pc' = pc
                       [] e.Cat = "detached" /\ p.nil ->
                            \* line 109: p.Ts panics
                            /\ pc' = "panic"
                            /\ syscallEvents' = list1
                            /\ preserved' = preserved
                       [] e.Cat = "detached" /\ ~p.nil ->
                            /\ syscallEvents' = Append(list1, PairDetached(e, p.e))
                            /\ preserved' = MapDelete(preserved, k)
                            /\ pc' = pc
                       [] OTHER ->
                            /\ syscallEvents' = Append(list1, e)
                            /\ preserved' = preserved
                            /\ pc' = pc
    /\ UNCHANGED <<processNames, threadNames, processThreads, metadataEvents,
                   nextFlowId, resourceMonitorEvents, mergeArgs, events, saved,
                   samplerVars>>

\* Lines 85, 122-126: the scanner is at the end of the file; the preserved
\* events are appended in the order the range loop visits the map.
MainFlush ==
    /\ pc = "scan"
    /\ \E o \in KeyOrders(preserved) :
         syscallEvents' = syscallEvents
            \o [i \in 1..Len(o) |-> [preserved[o[i]] EXCEPT !.Ph = "i"]]
    /\ pc' = "tree"
    /\ UNCHANGED <<log, preserved, liveThreads, processNames, threadNames,
                   processThreads, metadataEvents, nextFlowId, resourceMonitorEvents,
                   mergeArgs, events, saved, samplerVars>>

\* Lines 128-150: the seed and the first loop; syscallEvents[0] panics on
\* an empty list.
MainTreeFirst ==
    /\ pc = "tree"
    /\ IF Len(syscallEvents) = 0
         THEN /\ pc' = "panic"
              /\ UNCHANGED <<syscallEvents, processThreads>>
         ELSE LET seed == MapPut(EmptyMap, syscallEvents[1].Tid, syscallEvents[1].Pid)
                  r    == AncestryLoop(syscallEvents, 1, seed)
              IN  /\ syscallEvents' = r.list
                  /\ processThreads' = r.pt
                  /\ pc' = "tree2"
    /\ UNCHANGED <<log, preserved, liveThreads, processNames, threadNames,
                   metadataEvents, nextFlowId, resourceMonitorEvents, mergeArgs, events,
                   saved, samplerVars>>

\* Lines 151-166 left out: the tree is built in one loop.
MainTreeSecondSkipped ==
    /\ pc = "tree2"
    /\ pc' = "synth"
    /\ UNCHANGED <<pipelineVars, resourceMonitorEvents, mergeArgs, events, saved,
                   samplerVars>>

\* Lines 151-166: the second loop
MainTreeSecond ==
    /\ pc = "tree2"
    /\ LET r == AncestryLoop(syscallEvents, 1, processThreads)
       IN  /\ syscallEvents' = r.list
           /\ processThreads' = r.pt
    /\ pc' = "synth"
    /\ UNCHANGED <<log, preserved, liveThreads, processNames, threadNames,
                   metadataEvents, nextFlowId, resourceMonitorEvents, mergeArgs, events,
                   saved, samplerVars>>

\* Lines 167-259
MainSynthesize ==
    /\ pc = "synth"
    /\ LET st == SynthLoop([list |-> syscallEvents, md |-> <<>>, tn |-> EmptyMap,
                            pn |-> EmptyMap, flow |-> 0], 1)
       IN  /\ syscallEvents' = st.list
           /\ metadataEvents' = st.md
           /\ threadNames' = st.tn
           /\ processNames' = st.pn
           /\ nextFlowId' = st.flow
    /\ pc' = "names"
    /\ UNCHANGED <<log, preserved, liveThreads, processThreads,
                   resourceMonitorEvents, mergeArgs, events, saved, samplerVars>>

\* Lines 260-292: the name metadata, in the order the range loops visit
\* the maps, and the argument list of merge.
MainNames ==
    /\ pc = "names"
    /\ \E po \in KeyOrders(processNames), to \in KeyOrders(threadNames) :
         /\ metadataEvents' = metadataEvents
               \o [i \in 1..Len(po) |-> ProcessNameEvent(po[i], processNames[po[i]])]
               \o [i \in 1..Len(to) |->
                      ThreadNameEvent(to[i], threadNames[to[i]], processThreads)]
         /\ mergeArgs' = <<metadataEvents', syscallEvents, resourceMonitorEvents>>
    /\ pc' = "merge"
    /\ UNCHANGED <<log, syscallEvents, preserved, liveThreads, processNames,
                   threadNames, processThreads, nextFlowId, resourceMonitorEvents,
                   events, saved, samplerVars>>

\* Line 292, events.go:157-193
MainMerge ==
    /\ pc = "merge"
    /\ events' = merge(mergeArgs)
    /\ pc' = "save"
    /\ UNCHANGED <<pipelineVars, resourceMonitorEvents, mergeArgs, saved, samplerVars>>

\* json.Marshal fails on a float64 that is infinite or NaN.
Marshalable(list) == \A i \in 1..Len(list) : list[i].Args.CPU.d # 0

\* Lines 295-299, events.go:126-134: log.Fatalf when the events cannot be
\* encoded or the file cannot be written.
MainSave ==
    /\ pc = "save"
    /\ \/ /\ Marshalable(events)
          /\ saved' = Marshal(events)
          /\ pc' = "done"
       \/ /\ pc' = "fatal"
          /\ saved' = saved
    /\ UNCHANGED <<pipelineVars, resourceMonitorEvents, mergeArgs, events, samplerVars>>

(***************************************************************************)
(* The goroutine of ResourceMonitor.Run, resources.go:90-130.              *)
(***************************************************************************)
\* The ctx.Done() case leaves the select and not the loop.
RunDoneFallsThrough ==
    /\ rpc = "select"
    /\ ctxDone
    /\ Len(resourceMonitor.samples) < MaxSamples
    /\ rpc' = "sample"
    /\ UNCHANGED <<pc, pipelineVars, resourceMonitorEvents, mergeArgs, events, saved,
                   resourceMonitor, ctxDone, now, cgroup>>

\* Lines 93-95: select takes the ctx.Done() case.
RunDone ==
    /\ rpc = "select"
    /\ ctxDone
    /\ rpc' = "stopped"
    /\ UNCHANGED <<pc, pipelineVars, resourceMonitorEvents, mergeArgs, events, saved,
                   resourceMonitor, ctxDone, now, cgroup>>

\* Lines 93-97: select takes the timer.C case.  With both cases ready
\* select chooses either.
RunTick ==
    /\ rpc = "select"
    /\ Len(resourceMonitor.samples) < MaxSamples
    /\ rpc' = "sample"
    /\ UNCHANGED <<pc, pipelineVars, resourceMonitorEvents, mergeArgs, events, saved,
                   resourceMonitor, ctxDone, now, cgroup>>

\* The texts of the counters, and the pseudo-files that hold them.
UsageTexts == {<<"0">>, <<"1", "0", "0", "0">>, <<"1", "5", "0", "0">>}

AnonTexts == {<<"1">>, <<"2">>}

CpuMax(quota, timeslice) == FileOf(<<quota \o <<" ">> \o timeslice>>)

CpuStat(usage) ==
    FileOf(<< <<"usage_usec", " ">> \o usage, <<"user_usec", " ">> \o usage >>)

MemoryStat(anon) == FileOf(<< <<"anon", " ">> \o anon, <<"file", " ", "0">> >>)

\* The time from one iteration to the next, nanoseconds.
Ticks == {1000, 2500, 500000}

\* The files an iteration may find, the counters taking the texts of usages
\* and anons: the kernel's cumulative usage counter does not decrease, and
\* a file of a cgroup that is gone cannot be read.
NextCgroups(cg, usages, anons) ==
    LET usage == readFlatKeyed(cg.cpuStat, "usage_usec").v
    IN  {[cg EXCEPT !.cpuStat = c, !.memoryStat = m] :
            c \in {Unreadable}
                    \cup {CpuStat(u) : u \in {x \in usages : DecimalValue(x) >= usage}},
            m \in {Unreadable} \cup {MemoryStat(a) : a \in anons}}

\* Lines 99-128: the clock and the counters have moved on, by one of ticks
\* and to texts of usages and anons; the two files are read and the sample
\* is appended.
RunSample(ticks, usages, anons) ==
    /\ rpc = "sample"
    /\ \E dt \in ticks, cg \in NextCgroups(cgroup, usages, anons) :
         LET cpu == readFlatKeyed(cg.cpuStat, "usage_usec")
             mem == readFlatKeyed(cg.memoryStat, "anon")
         IN  /\ ~cpu.err /\ ~mem.err
             /\ now' = now + dt
             /\ cgroup' = cg
             /\ resourceMonitor' = TakeSample(resourceMonitor, cpu.v, mem.v, now')
    /\ rpc' = "select"
    /\ UNCHANGED <<pc, pipelineVars, resourceMonitorEvents, mergeArgs, events, saved,
                   ctxDone>>

\* The failed read is tried again at the next tick.
RunReadErrorRetry(ticks, usages, anons) ==
    /\ rpc = "sample"
    /\ \E dt \in ticks, cg \in NextCgroups(cgroup, usages, anons) :
         /\ readFlatKeyed(cg.cpuStat, "usage_usec").err
               \/ readFlatKeyed(cg.memoryStat, "anon").err
         /\ now' = now + dt
         /\ cgroup' = cg
    /\ rpc' = "select"
    /\ UNCHANGED <<pc, pipelineVars, resourceMonitorEvents, mergeArgs, events, saved,
                   resourceMonitor, ctxDone>>

\* Lines 99-115: readFlatKeyed fails on cpu.stat or on memory.stat; Run
\* returns.
RunReadError(ticks, usages, anons) ==
    /\ rpc = "sample"
    /\ \E dt \in ticks, cg \in NextCgroups(cgroup, usages, anons) :
         /\ readFlatKeyed(cg.cpuStat, "usage_usec").err
               \/ readFlatKeyed(cg.memoryStat, "anon").err
         /\ now' = now + dt
         /\ cgroup' = cg
    /\ rpc' = "stopped"
    /\ UNCHANGED <<pc, pipelineVars, resourceMonitorEvents, mergeArgs, events, saved,
                   resourceMonitor, ctxDone>>

(***************************************************************************)
(* The log lines of the model.  The k-th line of a log carries the         *)
(* timestamp 1.k: strace writes its lines in the order of their            *)
(* timestamps.                                                             *)
(***************************************************************************)
DigitChar(k) ==
    CASE k = 0 -> "0" [] k = 1 -> "1" [] k = 2 -> "2" [] k = 3 -> "3" [] k = 4 -> "4"
      [] k = 5 -> "5" [] k = 6 -> "6" [] k = 7 -> "7" [] k = 8 -> "8" [] k = 9 -> "9"

TsText(k) == <<"1", ".", DigitChar(k)>>

TidText(tid) == <<DigitChar(tid)>>

DurText == <<"0", ".", "3">>

ThreadFlags == <<"(", "flags=", "CLONE_VM", "|", "CLONE_THREAD", ")">>

ProcessFlags == <<"(", "flags=", "SIGCHLD", ")">>

ReadArgs == <<"(", "3", ")">>

Errno == <<"-", "1", " ", "EAGAIN">>

SuccessfulLine(tid, k, name, args, ret) ==
    [shape |-> {"successful"}, g1 |-> TidText(tid), g2 |-> TsText(k), g3 |-> name,
     g4 |-> args, g5 |-> ret, g6 |-> DurText]

\* A failed call is matched by reFailed and by reSuccessful.
FailedLine(tid, k, name, args) ==
    [shape |-> {"failed", "successful"}, g1 |-> TidText(tid), g2 |-> TsText(k),
     g3 |-> name, g4 |-> args, g5 |-> Errno, g6 |-> DurText]

UnfinishedLine(tid, k, name, args) ==
    [shape |-> {"unfinished"}, g1 |-> TidText(tid), g2 |-> TsText(k), g3 |-> name,
     g4 |-> args, g5 |-> <<>>, g6 |-> <<>>]

DetachedLine(tid, k, name, args, ret) ==
    [shape |-> {"detached"}, g1 |-> TidText(tid), g2 |-> TsText(k), g3 |-> name,
     g4 |-> args, g5 |-> ret, g6 |-> DurText]

ExitedLine(tid, k) ==
    [shape |-> {"exited"}, g1 |-> TidText(tid), g2 |-> TsText(k),
     g3 |-> "+++ exited with 0 +++", g4 |-> <<"exited with 0">>, g5 |-> <<>>,
     g6 |-> <<>>]

\* A line no regular expression matches.
OtherLine == [NoLine EXCEPT !.g3 = "strace: Process attached"]

\* Spec: the calls of two threads, interrupted and resumed, and the
\* creation of the second.
PairingLines(k) ==
    UNION {{SuccessfulLine(t, k, "read", ReadArgs, <<"5">>),
            UnfinishedLine(t, k, "read", <<"(", "3">>),
            DetachedLine(t, k, "read", <<")">>, <<"5">>),
            ExitedLine(t, k)} : t \in {1, 2}}
    \cup {SuccessfulLine(1, k, "clone", ThreadFlags, TidText(2)), OtherLine}

\* SpecAncestry: three threads and the creation calls between them.
CreationPairs == {<<1, 2>>, <<1, 3>>, <<2, 3>>}

AncestryLines(k) ==
    {SuccessfulLine(t, k, "read", ReadArgs, <<"5">>) : t \in {1, 2, 3}}
    \cup {SuccessfulLine(c[1], k, "clone", ThreadFlags, TidText(c[2])) : c \in CreationPairs}
    \cup {SuccessfulLine(c[1], k, "fork", <<"(", ")">>, TidText(c[2])) : c \in CreationPairs}
    \cup {FailedLine(1, k, "clone3", ThreadFlags)}

(***************************************************************************)
(* The specifications.                                                     *)
(***************************************************************************)
InitPipelineVars ==
    /\ log = <<>>
    /\ syscallEvents = <<>>
    /\ preserved = EmptyMap
    /\ liveThreads = {}
    /\ processNames = EmptyMap
    /\ threadNames = EmptyMap
    /\ processThreads = EmptyMap
    /\ metadataEvents = <<>>
    /\ nextFlowId = 0

InitCgroup ==
    cgroup = [cpuMax |-> CpuMax(<<"2">>, <<"1">>), cpuStat |-> CpuStat(<<"0">>),
              memoryStat |-> MemoryStat(<<"1">>)]

\* A monitor that has stopped with one sample taken.
StoppedMonitor ==
    TakeSample(NewMonitor(2, 1, 0, 10000), 1, 1, 12000)

\* The pipeline, from the return of cancel() on.
InitPipeline ==
    /\ pc = "events"
    /\ InitPipelineVars
    /\ resourceMonitorEvents = <<>>
    /\ mergeArgs = <<>>
    /\ events = <<>>
    /\ saved = <<>>
    /\ resourceMonitor \in {NilMonitor, StoppedMonitor}
    /\ rpc = "stopped"
    /\ ctxDone = TRUE
    /\ now = 12000
    /\ InitCgroup

PipelineNext ==
    \/ MainEvents
    \/ MainFlush
    \/ MainTreeFirst
    \/ MainTreeSecond
    \/ MainSynthesize
    \/ MainNames
    \/ MainMerge
    \/ MainSave

Next == ScanLine(PairingLines(Len(log) + 1)) \/ PipelineNext

Spec == InitPipeline /\ [][Next]_vars

NextAncestry == ScanLine(AncestryLines(Len(log) + 1)) \/ PipelineNext

SpecAncestry == InitPipeline /\ [][NextAncestry]_vars

\* merge alone, on lists of events that differ in their names.
MergeTs == {0, 1}

MergeTsLists == UNION {[1..m -> MergeTs] : m \in 0..MaxListLen}

MergeEvent(i, k, ts) ==
    [ZeroEvent EXCEPT !.Name = ToString(i) \o "." \o ToString(k), !.Ts = ts]

InitMerge ==
    /\ pc = "merge"
    /\ InitPipelineVars
    /\ resourceMonitorEvents = <<>>
    /\ \E n \in 0..MaxLists : \E tss \in [1..n -> MergeTsLists] :
         mergeArgs = [i \in 1..n |-> [k \in 1..Len(tss[i]) |-> MergeEvent(i, k, tss[i][k])]]
    /\ events = <<>>
    /\ saved = <<>>
    /\ resourceMonitor = NilMonitor
    /\ rpc = "stopped"
    /\ ctxDone = TRUE
    /\ now = 0
    /\ InitCgroup

NextMerge == MainMerge \/ MainSave

SpecMerge == InitMerge /\ [][NextMerge]_vars

(***************************************************************************)
(* Properties of merge, checked under SpecMerge.                           *)
(***************************************************************************)
MergeReturned == pc \in {"save", "done"}

Sorted(list) == \A i \in 1..(Len(list) - 1) : list[i].Ts <= list[i + 1].Ts

RECURSIVE SumLen(_)
SumLen(lists) == IF lists = <<>> THEN 0 ELSE Len(Head(lists)) + SumLen(Tail(lists))

\* The places <<list, index>> of the arguments of merge, and those that hold e.
ArgPlaces ==
    UNION {{<<i, k>> : k \in 1..Len(mergeArgs[i])} : i \in 1..Len(mergeArgs)}

PlacesOf(e) == {pl \in ArgPlaces : mergeArgs[pl[1]][pl[2]] = e}

\* The indices of the merged list that hold the event at place pl.
OutputOf(pl) == {p \in 1..Len(events) : events[p] = mergeArgs[pl[1]][pl[2]]}

\* C2: when every list handed to merge is non-decreasing in timestamp, the
\* merged list is non-decreasing in timestamp, and of two events with the
\* same timestamp the one of the earlier list (and, within a list, the
\* earlier one) comes first.
MergeOrder ==
    (MergeReturned /\ \A i \in 1..Len(mergeArgs) : Sorted(mergeArgs[i])) =>
        \A p, q \in 1..Len(events) :
            p < q =>
                \/ events[p].Ts < events[q].Ts
                \/ /\ events[p].Ts = events[q].Ts
                   /\ \A a \in PlacesOf(events[p]), b \in PlacesOf(events[q]) :
                        a[1] < b[1] \/ (a[1] = b[1] /\ a[2] < b[2])

\* Three sorted lists; once the first is exhausted and removed, the heads
\* of the second and the third carry the same timestamp.
MergeOrderWitness ==
    /\ MergeReturned
    /\ Len(mergeArgs) = 3
    /\ \A i \in 1..3 : Sorted(mergeArgs[i]) /\ Len(mergeArgs[i]) >= 1
    /\ Len(mergeArgs[1]) = 1
    /\ mergeArgs[1][1].Ts < mergeArgs[2][1].Ts
    /\ mergeArgs[2][1].Ts = mergeArgs[3][1].Ts
    /\ events[1] = mergeArgs[1][1]
    /\ events[2] = mergeArgs[2][1]

\* C3: the merged list is as long as the lists handed to merge together,
\* holds each of their events exactly once, and keeps the order of the
\* events of each list.
MergeTotality ==
    MergeReturned =>
        /\ Len(events) = SumLen(mergeArgs)
        /\ \A pl \in ArgPlaces : Cardinality(OutputOf(pl)) = 1
        /\ \A a, b \in ArgPlaces :
              (a[1] = b[1] /\ a[2] < b[2]) =>
                  \A p \in OutputOf(a), q \in OutputOf(b) : p < q

\* An empty list between two lists that are not, one of them out of order.
MergeTotalityWitness ==
    /\ MergeReturned
    /\ Len(mergeArgs) = 3
    /\ mergeArgs[2] = <<>>
    /\ Len(mergeArgs[1]) = 2
    /\ mergeArgs[1][1].Ts > mergeArgs[1][2].Ts
    /\ Len(mergeArgs[3]) = 1
    /\ Len(events) = 3

(***************************************************************************)
(* Properties of the pipeline, checked under Spec.                         *)
(***************************************************************************)
\* C1: the merged list of the metadata, the syscall events and the
\* resource counters is non-decreasing in timestamp.
FinalOrder == MergeReturned => Sorted(events)

LineTs(line) == convertTS(line.g2).v

LineKey(line) == PreservedKey(NewEvent(line).e)

\* Line j of the log is a detached line and line i is the unfinished line
\* it resumes: the last unfinished line of its key before it, not resumed
\* in between.
Pair(i, j) ==
    /\ i < j
    /\ getType(log[i]) = "unfinished"
    /\ getType(log[j]) = "detached"
    /\ LineKey(log[i]) = LineKey(log[j])
    /\ \A n \in (i + 1)..(j - 1) :
          ~(LineKey(log[n]) = LineKey(log[i])
            /\ getType(log[n]) \in {"unfinished", "detached"})

Unmatched(j) ==
    getType(log[j]) = "detached" /\ ~\E i \in 1..Len(log) : Pair(i, j)

EventsOf(list, lines) == {n \in 1..Len(list) : list[n].fullTrace \in lines}

\* C4: an unfinished line and the detached line that resumes it yield one
\* event, in the syscall events and in the merged list: a Complete event
\* with the timestamp and the first-argument text of the unfinished line
\* and the difference of the two timestamps as its duration; the preserved
\* entry is gone from the table.
PairingComplete ==
    \A i, j \in 1..Len(log) :
        Pair(i, j) =>
            /\ Cardinality(EventsOf(syscallEvents, {log[i], log[j]})) = 1
            /\ \A n \in EventsOf(syscallEvents, {log[i], log[j]}) :
                  /\ syscallEvents[n].fullTrace = log[j]
                  /\ syscallEvents[n].Ph = "X"
                  /\ syscallEvents[n].Ts = LineTs(log[i])
                  /\ syscallEvents[n].Dur = LineTs(log[j]) - LineTs(log[i])
                  /\ syscallEvents[n].Args.First = log[i].g4
            /\ \A k \in DOMAIN preserved : preserved[k].fullTrace # log[i]
            /\ MergeReturned =>
                  Cardinality(EventsOf(events, {log[i], log[j]})) = 1

\* A call interrupted by a line of the other thread, resumed, and the
\* trace saved.
PairingWitness ==
    /\ pc = "done"
    /\ Len(log) = 3
    /\ Pair(1, 3)
    /\ getType(log[2]) = "successful"
    /\ \E n \in 1..Len(events) : events[n].fullTrace = log[3] /\ events[n].Dur = 2

\* C8: a detached line with no preserved unfinished entry of its key ends
\* the run at that line: no later line is read, no event is made of the
\* line and nothing is saved.
UnmatchedDetachedAborts ==
    \A j \in 1..Len(log) :
        Unmatched(j) =>
            /\ pc = "panic"
            /\ j = Len(log)
            /\ EventsOf(syscallEvents, {log[j]}) = {}
            /\ saved = <<>>

\* A detached line of one thread while only the other thread has a call
\* preserved.
UnmatchedDetachedWitness ==
    /\ pc = "panic"
    /\ Len(log) = 2
    /\ getType(log[1]) = "unfinished"
    /\ Unmatched(2)
    /\ DOMAIN preserved # {}

\* C10: the pipeline does not abort on a log strace was stopped in, one in
\* which every detached line resumes an unfinished line; the log may hold
\* no classified line at all.
PartialLogCompletes ==
    (\A j \in 1..Len(log) : ~Unmatched(j)) => pc # "panic"

(***************************************************************************)
(* Properties of the process tree and the flows, checked under             *)
(* SpecAncestry.                                                           *)
(***************************************************************************)
\* The two loops of lines 135-166 have run.
Reconstructed == pc \in {"synth", "names", "merge", "save", "done"}

\* The loop of lines 170-259 has run.
Synthesized == pc \in {"names", "merge", "save", "done"}

LineTid(line) == convertID(line.g1).v

\* Line j is a creation call that returned the id child.
CreationLine(j, child) ==
    /\ getType(log[j]) = "successful"
    /\ log[j].g3 = "fork" \/ HasPrefixClone(log[j].g3)
    /\ Atoi(log[j].g5) = [err |-> FALSE, v |-> child]

ThreadCreationLine(j, creator, child) ==
    /\ CreationLine(j, child)
    /\ LineTid(log[j]) = creator
    /\ Contains(log[j].g4, "CLONE_THREAD")

LogTids == {LineTid(log[j]) : j \in 1..Len(log)}

\* Process a creates the thread t with CLONE_THREAD, in a line that comes
\* after the first line of t; a is no thread of another process, and t is
\* created by no other call.
CreatedAfterFirstLine(a, t) ==
    /\ \E j \in 1..Len(log) :
          ThreadCreationLine(j, a, t) /\ \E i \in 1..(j - 1) : LineTid(log[i]) = t
    /\ \A j \in 1..Len(log) : CreationLine(j, t) => ThreadCreationLine(j, a, t)
    /\ \A j \in 1..Len(log), c \in LogTids : ~ThreadCreationLine(j, c, a)

\* C5: when process a creates thread t with CLONE_THREAD and the first
\* line of t comes before the creation call, every event of t, its
\* lifetime Begin event included, has a's id as its process id once the
\* two loops have run.
AncestryConvergence ==
    Reconstructed =>
        \A a, t \in LogTids :
            CreatedAfterFirstLine(a, t) =>
                \A n \in 1..Len(syscallEvents) :
                    syscallEvents[n].Tid = t => syscallEvents[n].Pid = a

\* The thread's first event is the first event of the log, its lifetime
\* Begin event before it, and both carry the creator's id.
AncestryConvergenceWitness ==
    /\ pc = "synth"
    /\ \E a, t \in LogTids :
          /\ a # t
          /\ CreatedAfterFirstLine(a, t)
          /\ LineTid(log[1]) = t
          /\ syscallEvents[1].Ph = "B" /\ syscallEvents[1].Tid = t
          /\ syscallEvents[1].Pid = a
          /\ syscallEvents[2].Tid = t /\ syscallEvents[2].Pid = a

\* The creation calls of the event list, and those with a child id.
Creations == {n \in 1..Len(syscallEvents) : IsCreation(syscallEvents[n])}

Children ==
    {n \in Creations : ~Atoi(syscallEvents[n].Args.ReturnValue).err}

FlowEvents == {m \in 1..Len(metadataEvents) : metadataEvents[m].Ph \in {"s", "f"}}

FlowsOf(id) == {m \in FlowEvents : metadataEvents[m].Id = id}

\* The flow events with identifier id are the two of the creation call e.
FlowPair(e, id) ==
    /\ Cardinality(FlowsOf(id)) = 2
    /\ \E a, b \in FlowsOf(id) :
          /\ metadataEvents[a].Ph = "s"
          /\ metadataEvents[a].Pid = e.Pid
          /\ metadataEvents[a].Tid = e.Tid
          /\ metadataEvents[a].Ts = e.Ts + 1
          /\ metadataEvents[b].Ph = "f"
          /\ metadataEvents[b].Ts = e.Ts + 1

\* C6 as claimed: every creation call of the event list has two flow
\* events of one identifier, a FlowStart on the creator and a FlowEnd, one
\* microsecond after the call.
FlowSymmetryEveryCreation ==
    Synthesized =>
        \A n \in Creations :
            \E id \in 0..Len(syscallEvents) : FlowPair(syscallEvents[n], id)

\* C6, amended: every creation call whose return value is a child id has
\* two flow events whose identifier no other creation call uses, a
\* FlowStart on the creator's pid and tid and a FlowEnd on the child id,
\* both one microsecond after the call; there are no other flow events.
FlowSymmetry ==
    Synthesized =>
        /\ \A n \in Children :
              LET e  == syscallEvents[n]
                  id == Cardinality({m \in Children : m < n})
              IN  /\ FlowPair(e, id)
                  /\ \A b \in FlowsOf(id) :
                        metadataEvents[b].Ph = "f" =>
                            /\ metadataEvents[b].Tid = Atoi(e.Args.ReturnValue).v
                            /\ metadataEvents[b].Pid =
                                  IF Contains(e.Args.First, "CLONE_THREAD")
                                    THEN e.Pid
                                    ELSE Atoi(e.Args.ReturnValue).v
        /\ Cardinality(FlowEvents) = 2 * Cardinality(Children)

\* A thread creation, a failed creation and a process creation.
FlowSymmetryWitness ==
    /\ pc = "done"
    /\ Cardinality(Creations) = 3
    /\ Cardinality(Children) = 2
    /\ Cardinality(FlowEvents) = 4
    /\ \E n, m \in Children :
          /\ Contains(syscallEvents[n].Args.First, "CLONE_THREAD")
          /\ syscallEvents[m].Name = "fork"

(***************************************************************************)
(* SpecParse: lines whose numeric fields are and are not numbers.          *)
(***************************************************************************)
ParseIds == {<<"1">>, <<"9", "9", "9">>}

ParseDurations ==
    {DurText, <<"a">>, <<"7">>, <<"x", ".", "y">>, <<"1", ".", "2", ".", "3">>}

ParseLines(k) ==
    {[SuccessfulLine(1, k, "read", ReadArgs, <<"5">>)
        EXCEPT !.g1 = id, !.g2 = ts, !.g6 = dur] :
        id \in ParseIds, ts \in {TsText(k), <<"9", "9", ".", "9">>}, dur \in ParseDurations}
    \cup {UnfinishedLine(1, k, "read", <<"(", "3">>)}
    \cup {[DetachedLine(1, k, "read", <<")">>, <<"5">>) EXCEPT !.g6 = dur] :
            dur \in ParseDurations}

NextParse == ScanLine(ParseLines(Len(log) + 1)) \/ PipelineNext

SpecParse == InitPipeline /\ [][NextParse]_vars

\* A text of decimal digits, and a text of seconds with a fraction.
Numeral(t) == Len(t) > 0 /\ \A i \in 1..Len(t) : t[i] \in Digits

Seconds(t) ==
    LET s == Split(t, ".") IN Len(s) = 2 /\ Numeral(s[1]) /\ Numeral(s[2])

\* C9: an event is made of a line only when the line's id, timestamp and
\* duration are numbers: a field that is none ends the run.
NumericFieldsParsed ==
    \A n \in 1..Len(syscallEvents) :
        LET line == syscallEvents[n].fullTrace
        IN  line # NoLine =>
                /\ Numeral(line.g1)
                /\ Seconds(line.g2)
                /\ getType(line) \in {"successful", "failed", "detached"} =>
                      Seconds(line.g6)

(***************************************************************************)
(* SpecSampler: main and the goroutine of the sampler, up to the call of   *)
(* Events.                                                                 *)
(***************************************************************************)
\* The cgroup the program starts in: two cores, or no limit, or the root
\* cgroup, which has no cpu.max.
SamplerCgroups ==
    {[cpuMax |-> m, cpuStat |-> CpuStat(u), memoryStat |-> MemoryStat(<<"1">>)] :
        m \in {CpuMax(<<"2">>, <<"1">>), CpuMax(<<"max">>, <<"1">>), Unreadable},
        u \in {<<"0">>, <<"1", "0", "0", "0">>}}

InitSampler ==
    /\ pc = "new"
    /\ InitPipelineVars
    /\ resourceMonitorEvents = <<>>
    /\ mergeArgs = <<>>
    /\ events = <<>>
    /\ saved = <<>>
    /\ resourceMonitor = NilMonitor
    /\ rpc = "idle"
    /\ ctxDone = FALSE
    /\ now = 10000
    /\ cgroup \in SamplerCgroups

NextSampler ==
    \/ MainNewResourceMonitor
    \/ MainGo
    \/ MainStraceRun
    \/ MainCancel
    \/ MainEvents
    \/ RunDone
    \/ RunTick
    \/ RunSample(Ticks, UsageTexts, AnonTexts)
    \/ RunReadError(Ticks, UsageTexts, AnonTexts)

SpecSampler == InitSampler /\ [][NextSampler]_vars

\* C7: Events reads the samples after Run has exited, so the events it
\* returned cover every sample there is: none is appended later.
SamplesHandedOff ==
    (pc = "scan" /\ ~resourceMonitor.nil) =>
        /\ rpc = "stopped"
        /\ Len(resourceMonitorEvents) = Len(resourceMonitor.samples) + 2

(***************************************************************************)
(* Properties of the sampler, checked under SpecSampler.                   *)
(***************************************************************************)
\* The quota and the period of cpu.max, and the usage cpu.stat holds.
CpuMaxFields == Cut(cgroup.cpuMax.lines[1], " ")

Quota == parseUint64(CpuMaxFields.before).v

Timeslice == parseUint64(CpuMaxFields.after).v

UsageOf(cg) == readFlatKeyed(cg.cpuStat, "usage_usec").v

\* The baseline of the next sample.
Baseline(r) == <<r.lastCPUUsageUsec, r.lastTimestamp>>

\* C11: a step that changes the samples appends one sample, taken now,
\* whose CPU utilization is 100 * (usage now - baseline usage) / (quota /
\* period) / (whole microseconds from the baseline time to now); the
\* baseline becomes the usage and the time of that sample, and no other
\* step changes it, so the baseline is that of the previous sample, or of
\* the construction before the first.
CPUFormula ==
    [][~resourceMonitor.nil =>
          /\ resourceMonitor'.samples # resourceMonitor.samples =>
                LET s == Last(resourceMonitor'.samples)
                IN  /\ resourceMonitor'.samples = Append(resourceMonitor.samples, s)
                    /\ s.ts = now'
                    /\ s.cpu.d > 0
                    /\ s.cpu =
                          [n |-> 100 * (UsageOf(cgroup')
                                          - resourceMonitor.lastCPUUsageUsec) * Timeslice,
                           d |-> Quota * Microseconds(now' - resourceMonitor.lastTimestamp)]
                    /\ Baseline(resourceMonitor') = <<UsageOf(cgroup'), s.ts>>
          /\ Baseline(resourceMonitor') # Baseline(resourceMonitor) =>
                resourceMonitor'.samples # resourceMonitor.samples
    ]_vars

\* Two cores, the usage 1000 and then 1500, 500 microseconds apart: 50.
CPUFormulaWitness ==
    /\ ~resourceMonitor.nil
    /\ Quota = 2 /\ Timeslice = 1
    /\ Len(resourceMonitor.samples) = 2
    /\ resourceMonitor.lastCPUUsageUsec = 1500
    /\ resourceMonitor.samples[2].ts - resourceMonitor.samples[1].ts = 500000
    /\ resourceMonitor.samples[2].cpu.d > 0
    /\ resourceMonitor.samples[2].cpu.n = 50 * resourceMonitor.samples[2].cpu.d

(***************************************************************************)
(* Properties of the names, checked under SpecAncestry and SpecNames.      *)
(***************************************************************************)
\* The events of the merged list that were made of log lines, the lifetime
\* Begin events among them.
SyscallCats == {"successful", "failed", "unfinished", "detached", "lifetime"}

\* C12: in the merged list a thread_name event comes before every syscall
\* event of the thread it names, and a process_name event before every
\* syscall event of the process it names.
NamesFirst ==
    MergeReturned =>
        \A m, n \in 1..Len(events) :
            (events[m].Ph = "M" /\ events[n].Cat \in SyscallCats) =>
                /\ (events[m].Name = "thread_name" /\ events[n].Tid = events[m].Tid)
                      => m < n
                /\ (events[m].Name = "process_name" /\ events[n].Pid = events[m].Pid)
                      => m < n

\* C13: once the two loops of main.go:135-166 have run, every event whose
\* thread id is a key of processThreads carries the process id the map
\* gives for it.
TwoPassesSuffice ==
    pc = "synth" =>
        \A n \in 1..Len(syscallEvents) :
            syscallEvents[n].Tid \in DOMAIN processThreads =>
                syscallEvents[n].Pid = processThreads[syscallEvents[n].Tid]

(***************************************************************************)
(* SpecNames: the naming calls of two threads, the creation of the second  *)
(* and a global-event marker.                                              *)
(***************************************************************************)
PrctlArgs == <<"(", "PR_SET_NAME", ", ", Quote, "worker", Quote, ")">>

ExecveArgs ==
    <<"(", Quote, "/", "bin", "/", "ls", Quote, ", ", "[", Quote, "ls", Quote, ", ",
      Quote, "-l", Quote, "]", ")">>

\* strace has cut the first argument short.
ExecveArgsCut ==
    <<"(", Quote, "/", "bin", "/", "sh", Quote, ", ", "[", Quote, "/bi", Quote, "...",
      "]", ")">>

WriteArgs ==
    <<"(", "1", ", ", Quote, "===", " ", "marker", " ", "===", Quote, ", ", "14", ")">>

NameLines(k) ==
    UNION {{SuccessfulLine(t, k, "read", ReadArgs, <<"5">>),
            SuccessfulLine(t, k, "prctl", PrctlArgs, <<"0">>),
            SuccessfulLine(t, k, "execve", ExecveArgs, <<"0">>)} : t \in {1, 2}}
    \cup {SuccessfulLine(1, k, "execve", ExecveArgsCut, <<"0">>),
          SuccessfulLine(1, k, "clone", ThreadFlags, TidText(2)),
          SuccessfulLine(1, k, "fork", <<"(", ")">>, TidText(2)),
          SuccessfulLine(2, k, "write", WriteArgs, <<"1", "4">>)}

NextNames == ScanLine(NameLines(Len(log) + 1)) \/ PipelineNext

SpecNames == InitPipeline /\ [][NextNames]_vars

\* The thread name a naming call gives: the name of a prctl(PR_SET_NAME)
\* or of an execve.
IsThreadNaming(e) ==
    e.Name = "execve" \/ (e.Name = "prctl" /\ Contains(e.Args.First, "PR_SET_NAME"))

NameGiven(e) ==
    IF e.Name = "execve" THEN ExecveName(e) ELSE SetThreadName(e, EmptyMap)[e.Tid]

\* C14: the name of a thread's last own naming call is the thread's name
\* once the loop of main.go:170-259 has run, and the name of the last execve
\* of a process is the name of the process: the name inherited at the
\* creation call does not replace it.
OwnNameKept ==
    Synthesized =>
        \A n \in 1..Len(syscallEvents) :
            LET e == syscallEvents[n]
            IN  /\ (IsThreadNaming(e)
                    /\ \A m \in (n + 1)..Len(syscallEvents) :
                          ~(IsThreadNaming(syscallEvents[m])
                            /\ syscallEvents[m].Tid = e.Tid))
                      => MapGet(threadNames, e.Tid, <<>>) = NameGiven(e)
                /\ (e.Name = "execve"
                    /\ \A m \in (n + 1)..Len(syscallEvents) :
                          ~(syscallEvents[m].Name = "execve"
                            /\ syscallEvents[m].Pid = e.Pid))
                      => MapGet(processNames, e.Pid, <<>>) = ExecveName(e)

\* The name events of main.go:260-289 are in metadataEvents.
Named == pc \in {"merge", "save", "done"}

DiscoveredTids == {syscallEvents[n].Tid : n \in 1..Len(syscallEvents)}

DiscoveredPids == {syscallEvents[n].Pid : n \in 1..Len(syscallEvents)}

ThreadNameEvents(tid) ==
    {m \in 1..Len(metadataEvents) :
        /\ metadataEvents[m].Ph = "M"
        /\ metadataEvents[m].Name = "thread_name"
        /\ metadataEvents[m].Tid = tid}

ProcessNameEvents(pid) ==
    {m \in 1..Len(metadataEvents) :
        /\ metadataEvents[m].Ph = "M"
        /\ metadataEvents[m].Name = "process_name"
        /\ metadataEvents[m].Pid = pid}

\* C15: every thread id of the event list has exactly one thread_name
\* event, which carries the thread's name, empty when the thread was never
\* named, and the process id of the thread's events; every process id of
\* the event list has exactly one process_name event, which carries the
\* process's name, empty when the process was never named.
OneNamePerId ==
    Named =>
        /\ \A t \in DiscoveredTids :
              /\ Cardinality(ThreadNameEvents(t)) = 1
              /\ \A m \in ThreadNameEvents(t) :
                    /\ metadataEvents[m].Args.Name = MapGet(threadNames, t, <<>>)
                    /\ \A n \in 1..Len(syscallEvents) :
                          syscallEvents[n].Tid = t =>
                              metadataEvents[m].Pid = syscallEvents[n].Pid
        /\ \A p \in DiscoveredPids :
              /\ Cardinality(ProcessNameEvents(p)) = 1
              /\ \A m \in ProcessNameEvents(p) :
                    metadataEvents[m].Args.Name = MapGet(processNames, p, <<>>)

(***************************************************************************)
(* Properties of the scanner loop, checked under Spec.                     *)
(***************************************************************************)
\* C16: in the merged list every unfinished line is accounted for exactly
\* once: by the one Complete event of the detached line that resumes it,
\* or, when no line resumes it, by one Instant event of its own; and every
\* other classified line has exactly one event.
UnfinishedAccounted ==
    MergeReturned =>
        \A i \in 1..Len(log) :
            CASE getType(log[i]) = "unfinished" ->
                    IF \E j \in 1..Len(log) : Pair(i, j)
                      THEN \A j \in 1..Len(log) :
                              Pair(i, j) =>
                                  /\ Cardinality(EventsOf(events, {log[i], log[j]})) = 1
                                  /\ \A n \in EventsOf(events, {log[i], log[j]}) :
                                        events[n].Ph = "X"
                      ELSE /\ Cardinality(EventsOf(events, {log[i]})) = 1
                           /\ \A n \in EventsOf(events, {log[i]}) : events[n].Ph = "i"
              [] getType(log[i]) \in {"successful", "failed", "lifetime"} ->
                    Cardinality(EventsOf(events, {log[i]})) = 1
              [] OTHER -> TRUE

\* The lines of thread t that are classified, the first of them, and the
\* lifetime Begin events of t in a list.
ClassifiedLines(t) ==
    {i \in 1..Len(log) : getType(log[i]) # "other" /\ LineTid(log[i]) = t}

FirstLine(t) == CHOOSE i \in ClassifiedLines(t) : \A j \in ClassifiedLines(t) : i <= j

LifetimeBegins(list, t) ==
    {n \in 1..Len(list) :
        list[n].Cat = "lifetime" /\ list[n].Ph = "B" /\ list[n].Tid = t}

\* The list holds one lifetime Begin event of t, with the timestamp of t's
\* first line, ahead of every other syscall event of t.
LifetimeLeads(list, t) ==
    /\ Cardinality(LifetimeBegins(list, t)) = 1
    /\ \A b \in LifetimeBegins(list, t) :
          /\ list[b].Ts = LineTs(log[FirstLine(t)])
          /\ \A n \in 1..Len(list) :
                (n # b /\ list[n].Cat \in SyscallCats /\ list[n].Tid = t) => b < n

\* C17: every thread id of a classified line has exactly one lifetime
\* Begin event, made at its first line, which precedes every other syscall
\* event of the thread in syscallEvents and in the merged list.
LifetimeFirst ==
    \A t \in {LineTid(log[i]) : i \in {j \in 1..Len(log) : getType(log[j]) # "other"}} :
        /\ LifetimeLeads(syscallEvents, t)
        /\ MergeReturned => LifetimeLeads(events, t)

\* The first line of a thread is an unfinished call, resumed after a line
\* of another thread, and the trace is saved.
LifetimeFirstWitness ==
    /\ pc = "done"
    /\ Len(log) = 3
    /\ Pair(1, 3)
    /\ getType(log[2]) # "other"
    /\ LineTid(log[2]) # LineTid(log[1])
    /\ \E b, n \in 1..Len(events) :
          /\ b < n
          /\ events[b].Ph = "B" /\ events[b].Tid = LineTid(log[1])
          /\ events[n].fullTrace = log[3]

\* A step of the sampler's iteration in which readFlatKeyed fails on
\* cpu.stat or on memory.stat.
ReadFails ==
    /\ rpc = "sample"
    /\ rpc' # "sample"
    /\ readFlatKeyed(cgroup'.cpuStat, "usage_usec").err
          \/ readFlatKeyed(cgroup'.memoryStat, "anon").err

\* C18: a failed read of cpu.stat or memory.stat stops the sampler: the
\* iteration appends no sample and leaves the baseline, the samples and
\* main's position as they are; the stopped sampler reads and appends
\* nothing more; and when main then calls Events, it gets the two name
\* events and one counter event for every sample taken before the failure.
ReadFailureStops ==
    [][/\ ReadFails =>
             /\ rpc' = "stopped"
             /\ resourceMonitor' = resourceMonitor
             /\ pc' = pc
       /\ rpc = "stopped" =>
             /\ rpc' = "stopped"
             /\ resourceMonitor' = resourceMonitor
             /\ cgroup' = cgroup
       /\ (rpc = "stopped" /\ ~resourceMonitor.nil /\ pc = "events" /\ pc' # pc) =>
             /\ pc' = "scan"
             /\ Len(resourceMonitorEvents') = Len(resourceMonitor.samples) + 2
             /\ \A i \in 1..Len(resourceMonitor.samples) :
                   /\ resourceMonitorEvents'[i + 2].Ph = "C"
                   /\ resourceMonitorEvents'[i + 2].Ts =
                         Microseconds(resourceMonitor.samples[i].ts)
                   /\ resourceMonitorEvents'[i + 2].Args.CPU =
                         resourceMonitor.samples[i].cpu
                   /\ resourceMonitorEvents'[i + 2].Args.Memory =
                         resourceMonitor.samples[i].memory
    ]_vars

\* memory.stat could not be read after one sample; the sampler has stopped
\* and main has the sample's counter event.
ReadFailureWitness ==
    /\ pc = "scan"
    /\ rpc = "stopped"
    /\ cgroup.memoryStat.err /\ ~cgroup.cpuStat.err
    /\ Len(resourceMonitor.samples) = 1
    /\ Len(resourceMonitorEvents) = 3
    /\ resourceMonitorEvents[3].Args.Memory = resourceMonitor.samples[1].memory

(***************************************************************************)
(* SpecSamplerFair: the sampler beside main in a cgroup whose counters     *)
(* move little.  The goroutine of Run is scheduled, and a select with both *)
(* cases ready takes each of them sooner or later.                         *)
(***************************************************************************)
FairTicks == {1000, 2500}

FairUsages == {<<"0">>, <<"1", "0", "0", "0">>}

FairAnons == {<<"1">>}

InitSamplerFair ==
    /\ pc = "new"
    /\ InitPipelineVars
    /\ resourceMonitorEvents = <<>>
    /\ mergeArgs = <<>>
    /\ events = <<>>
    /\ saved = <<>>
    /\ resourceMonitor = NilMonitor
    /\ rpc = "idle"
    /\ ctxDone = FALSE
    /\ now = 10000
    /\ InitCgroup

NextSamplerFair ==
    \/ MainNewResourceMonitor
    \/ MainGo
    \/ MainStraceRun
    \/ MainCancel
    \/ MainEvents
    \/ RunDone
    \/ RunTick
    \/ RunSample(FairTicks, FairUsages, FairAnons)
    \/ RunReadError(FairTicks, FairUsages, FairAnons)

SpecSamplerFair ==
    /\ InitSamplerFair
    /\ [][NextSamplerFair]_vars
    /\ WF_vars(RunSample(FairTicks, FairUsages, FairAnons)
                  \/ RunReadError(FairTicks, FairUsages, FairAnons))
    /\ SF_vars(RunDone)

\* The states of the sampler: not started, in the loop, returned.
Uninitialized == rpc = "idle"

Sampling == rpc \in {"select", "sample"}

Stopped == rpc = "stopped"

\* C19: the sampler goes from Uninitialized to Sampling and from Sampling
\* to Stopped only; Stopped is final, and nothing is read or appended in
\* it; once cancel() has been called a sampler in its loop reaches Stopped.
SamplerLifecycle ==
    /\ [][/\ Uninitialized => (Uninitialized' \/ Sampling')
          /\ Sampling => (Sampling' \/ Stopped')
          /\ Stopped =>
                /\ Stopped'
                /\ resourceMonitor' = resourceMonitor
                /\ cgroup' = cgroup
                /\ now' = now
       ]_vars
    /\ (ctxDone /\ Sampling) ~> Stopped

\* The loop has taken a sample after cancel() and after main's call of
\* Events, and has then returned by the ctx.Done() case.
SamplerLifecycleWitness ==
    /\ Stopped
    /\ ctxDone
    /\ ~cgroup.cpuStat.err /\ ~cgroup.memoryStat.err
    /\ pc = "scan"
    /\ Len(resourceMonitor.samples) + 2 > Len(resourceMonitorEvents)

\* The flow events of the JSON output.
SavedFlows == {i \in 1..Len(saved) : saved[i].ph \in {"s", "f"}}

\* Two flow events of the output come from one creation call: every line
\* of the log has a timestamp of its own, and both flow events of a call
\* lie one microsecond after it.
SameCreation(i, j) == saved[i].ts = saved[j].ts

\* C20: every flow event of the JSON output has an id, and two flow events
\* of the output have the same id exactly when they come from the same
\* creation call.
FlowIdsSerialized ==
    pc = "done" =>
        /\ \A i \in SavedFlows : "id" \in DOMAIN saved[i]
        /\ \A i, j \in SavedFlows :
              ("id" \in DOMAIN saved[i] /\ "id" \in DOMAIN saved[j]) =>
                  (SameCreation(i, j) <=> saved[i].id = saved[j].id)

====
